---- MODULE Spec2Model ----
(***************************************************************************)
(* Checkout, promotion and fulfillment workflow of server.js.              *)
(*                                                                         *)
(* server.js holds two generations of the backend.  The first keeps the    *)
(* ledger in the document store (mongoose models Order, User, Promotion)   *)
(* and places orders synchronously in POST /api/checkout.  The second      *)
(* keeps the ledger in the relational store (Sequelize models SqlOrder,    *)
(* SqlUser, SqlPromotion), creates payment sessions in                     *)
(* POST /api/create-checkout-session and places orders from the payment    *)
(* webhook in fulfillOrderSql.  The two declare the same bindings and are  *)
(* never one process: the variable generation says which one runs, and     *)
(* orders, loyaltyPoints and usageCount are the ledger of that one.        *)
(*                                                                         *)
(* Money is an integer number of 1/10000 dollar, so that price * quantity  *)
(* and subTotal * discountValue / 100 are exact for the prices and         *)
(* percentages used here; the rounding of IEEE doubles is not modelled.    *)
(***************************************************************************)
EXTENDS Integers, Sequences, FiniteSets, TLC

VARIABLES
    generation,     \* which of the two backends of server.js is running
    orders,         \* the ledger's orders with their items, in commit order
    loyaltyPoints,  \* the ledger's loyaltyPoints, per user
    usageCount,     \* the ledger's usageCount, per promotion code
    co,             \* POST /api/checkout requests, per request slot
    sessions,       \* payment sessions held by the payment provider
    httpResp,       \* last response of POST /api/create-checkout-session
    ful,            \* fulfillOrderSql runs, per webhook delivery slot
    usageIncBy,     \* sessions whose usage increment was committed (history)
    calc,           \* one evaluation of the discount computation or of a code
    codeUsage,      \* the rows of personalized_code_usage
    ap              \* POST /api/apply-promotion requests, per request slot

vars == <<generation, orders, loyaltyPoints, usageCount, co,
          sessions, httpResp, ful, usageIncBy, calc, codeUsage, ap>>

\* The apply-promotion side
promoSide == <<codeUsage, ap>>

\* What the handlers of order placement leave alone
static == <<generation, calc, promoSide>>

ledger == <<orders, loyaltyPoints, usageCount>>
sqlSide == <<sessions, httpResp, ful, usageIncBy>>

----------------------------------------------------------------------------
(* Bounds of the model *)

MaxOrders == 2      \* orders committed or in a transaction, per run
MaxSessions == 2    \* payment sessions created, per run

Reqs == {"r1", "r2"}            \* concurrent checkout requests
Deliveries == {"d1", "d2"}      \* concurrent webhook deliveries
SessionIds == 1..MaxSessions

----------------------------------------------------------------------------
(* Data *)

Null == "null"
None == {}
Some(x) == {x}

Users == {1, 2}

Dollars(d) == d * 10000
Cents(c) == c * 100

\* Math.floor of an amount of dollars
Floor(amount) == amount \div 10000

TakeFirst(a, b) == a

Min(a, b) == IF a <= b THEN a ELSE b

\* The promotions table.  WELCOME10, FREESHIP100 and GOLD10 are the seeded
\* rows; FLASH150 and SAVE50 are rows of the same schema with a percentage
\* above 100, a fixed amount and a total usage limit.
PromotionRows ==
    [ WELCOME10   |-> [discountType |-> "PERCENTAGE", discountValue |-> 10,
                       isActive |-> TRUE, applicableTier |-> Null,
                       maxUses |-> None, maxUsesPerUser |-> Some(1),
                       startDate |-> None, endDate |-> None],
      FREESHIP100 |-> [discountType |-> "FREE_SHIPPING", discountValue |-> 0,
                       isActive |-> TRUE, applicableTier |-> "Silver",
                       maxUses |-> None, maxUsesPerUser |-> None,
                       startDate |-> None, endDate |-> None],
      GOLD10      |-> [discountType |-> "PERCENTAGE", discountValue |-> 10,
                       isActive |-> TRUE, applicableTier |-> "Gold",
                       maxUses |-> None, maxUsesPerUser |-> None,
                       startDate |-> None, endDate |-> None],
      FLASH150    |-> [discountType |-> "PERCENTAGE", discountValue |-> 150,
                       isActive |-> TRUE, applicableTier |-> Null,
                       maxUses |-> Some(1), maxUsesPerUser |-> Some(1),
                       startDate |-> None, endDate |-> None],
      SAVE50      |-> [discountType |-> "FIXED_AMOUNT", discountValue |-> 50,
                       isActive |-> TRUE, applicableTier |-> Null,
                       maxUses |-> None, maxUsesPerUser |-> Some(1),
                       startDate |-> None, endDate |-> None],
      OLD5        |-> [discountType |-> "FIXED_AMOUNT", discountValue |-> 5,
                       isActive |-> FALSE, applicableTier |-> Null,
                       maxUses |-> None, maxUsesPerUser |-> Some(1),
                       startDate |-> None, endDate |-> None] ]

PromoCodes == DOMAIN PromotionRows

\* Promotion codes as clients send them
RawCodes == PromoCodes \cup {"welcome10", "BOGUS"}

\* code.toUpperCase().trim()
ToUpperTrim(code) ==
    CASE code = "welcome10" -> "WELCOME10"
      [] code = " welcome10 " -> "WELCOME10"
      [] code = "wish-1-aaaa" -> "WISH-1-AAAA"
      [] OTHER -> code

\* Cart lines as clients send them.  A missing id or quantity is 0 and a
\* missing name is "", as all three are falsy; hasPrice is price != null.
Item(id, price, quantity) ==
    [id |-> id, name |-> "item", hasPrice |-> TRUE, price |-> price,
     quantity |-> quantity]

CartHundred == << Item(1, Dollars(50), 2) >>
CartNegative == << Item(3, 0 - Dollars(5), 1) >>
CartNoQuantity == << Item(1, Cents(7995), 1), Item(2, Dollars(40), 0) >>
CartNegativeQuantity == << Item(2, Dollars(40), 0 - 1) >>
CartEmpty == << >>
\* A line whose id is the string "abc"; ids 1 to 3 are numbers
CartStringId == << Item(4, Dollars(20), 1) >>
\* A line whose id is the string "2abc"
CartPrefixId == << Item(5, Dollars(20), 1) >>

Carts ==
    {CartHundred, CartNegative, CartNoQuantity, CartNegativeQuantity, CartEmpty}

RECURSIVE SumItems(_)
\* subTotal += item.price * item.quantity over the cart lines
SumItems(items) ==
    IF items = << >> THEN 0
    ELSE Head(items).price * Head(items).quantity + SumItems(Tail(items))

ItemMissingFields(item) ==
    item.id = 0 \/ item.name = "" \/ ~item.hasPrice \/ item.quantity = 0

CartMissingFields(cart) ==
    \E i \in 1..Len(cart) : ItemMissingFields(cart[i])

----------------------------------------------------------------------------
(* Promotion evaluation of POST /api/checkout *)

TierSilver == 100
TierGold == 500

\* if (promotion.applicableTier) { ... userTierMet ... }
UserTierMet(tier, points) ==
    \/ tier = "Silver" /\ points >= TierSilver
    \/ tier = "Gold" /\ points >= TierGold

NoClampDiscount(promotion, subTotal) ==
    CASE promotion.discountType = "PERCENTAGE" ->
            (subTotal * promotion.discountValue) \div 100
      [] promotion.discountType = "FIXED_AMOUNT" ->
            Dollars(promotion.discountValue)
      [] OTHER -> 0

\* The discount of a validated promotion, clamped to the subtotal
ComputeDiscount(promotion, subTotal) ==
    LET discountAmount ==
            CASE promotion.discountType = "PERCENTAGE" ->
                    (subTotal * promotion.discountValue) \div 100
              [] promotion.discountType = "FIXED_AMOUNT" ->
                    Dollars(promotion.discountValue)
              [] OTHER -> 0
    IN  Min(discountAmount, subTotal)

OrdersOf(u) == {i \in 1..Len(orders) : orders[i].user = u}

WelcomeNeverUsed(promotion, orderCount) == FALSE

\* promotion.maxUsesPerUser === 1 && promotion.code === 'WELCOME10', then
\* orderCount > 0
WelcomeAlreadyUsed(promotion, orderCount) ==
    /\ promotion.maxUsesPerUser = Some(1)
    /\ promotion.code = "WELCOME10"
    /\ orderCount > 0

\* The re-validation of checkout for the row found (None: no row), the
\* user's points and the user's number of orders: "ok", or the message of
\* the error thrown
CheckoutEvaluate(found, points, orderCount) ==
    IF found = None THEN "Invalid promotion code."
    ELSE LET promotion == CHOOSE row \in found : TRUE IN
         IF ~promotion.isActive THEN "Promotion is not active."
         ELSE IF promotion.applicableTier # Null
                  /\ ~UserTierMet(promotion.applicableTier, points)
              THEN "User tier requirement not met."
         ELSE IF WelcomeAlreadyUsed(promotion, orderCount)
              THEN "Welcome offer already used."
         ELSE "ok"

\* Promotion.findOne({ code }): the row with its code and usageCount
FindPromotion(code) ==
    IF code \in PromoCodes
    THEN Some([code |-> code, isActive |-> PromotionRows[code].isActive,
               startDate |-> PromotionRows[code].startDate,
               endDate |-> PromotionRows[code].endDate,
               maxUses |-> PromotionRows[code].maxUses,
               usageCount |-> usageCount[code],
               applicableTier |-> PromotionRows[code].applicableTier,
               maxUsesPerUser |-> PromotionRows[code].maxUsesPerUser])
    ELSE None

\* The re-validation of checkout against the ledger
CheckoutValidation(code, u) ==
    CheckoutEvaluate(FindPromotion(code), loyaltyPoints[u],
                     Cardinality(OrdersOf(u)))

\* The status of the catch block of checkout for an error message
CheckoutErrorStatus(message) ==
    IF message = "Cart item is missing required fields (id, name, price, quantity)."
    THEN 400
    ELSE IF message \in {"Invalid promotion code.",
                         "User tier requirement not met.",
                         "Welcome offer already used."}
    THEN 400
    ELSE 500
----------------------------------------------------------------------------
(* POST /api/checkout of the document-store generation *)

IdleReq ==
    [pc |-> "idle", user |-> 0, items |-> << >>, subTotal |-> 0,
     validatedPromoCode |-> Null, discountAmount |-> 0, finalTotal |-> 0,
     snapLen |-> None, status |-> 0, message |-> "", failedAt |-> ""]

TxPcs == {"inTx", "saved", "awarded", "counted"}

InTx == {r \in Reqs : co[r].pc \in TxPcs}

\* res.status(status).json({message}) ends the request; failedAt keeps the
\* step of the handler at which a request that did not succeed stopped
Respond(r, status, message) ==
    co' = [co EXCEPT ![r] = [IdleReq EXCEPT !.pc = "responded",
                                            !.status = status,
                                            !.message = message,
                                            !.failedAt = IF status = 201 THEN ""
                                                         ELSE co[r].pc]]

\* cart.map(item => ({product: item.id, name, price, quantity}))
OrderItems(cart) ==
    [i \in 1..Len(cart) |->
        [product |-> cart[i].id, name |-> cart[i].name,
         price |-> cart[i].price, quantity |-> cart[i].quantity]]

\* new Order({...}) of the request
NewOrder(r) ==
    [user |-> co[r].user, items |-> co[r].items, subTotal |-> co[r].subTotal,
     appliedPromoCode |-> co[r].validatedPromoCode,
     discountAmount |-> co[r].discountAmount, totalAmount |-> co[r].finalTotal,
     stripeSessionId |-> None]

\* The snapshot of a transaction is taken at its first operation
Snapshot(r) == IF co[r].snapLen = None THEN Some(Len(orders)) ELSE co[r].snapLen

SnapLenOf(r) == CHOOSE n \in Snapshot(r) : TRUE

\* A document written by a transaction committed after the snapshot, or by
\* another open transaction, makes the write fail with a write conflict.
UserWriteConflict(r) ==
    \/ \E i \in (SnapLenOf(r) + 1)..Len(orders) : orders[i].user = co[r].user
    \/ \E q \in Reqs \ {r} : co[q].pc \in {"awarded", "counted"}
                             /\ co[q].user = co[r].user

PromotionWriteConflict(r) ==
    \/ \E i \in (SnapLenOf(r) + 1)..Len(orders) :
            orders[i].appliedPromoCode = co[r].validatedPromoCode
    \/ \E q \in Reqs \ {r} : co[q].pc = "counted"
            /\ co[q].validatedPromoCode = co[r].validatedPromoCode

AbortKeepsOrder(r) ==
    /\ orders' = IF co[r].pc \in {"saved", "awarded", "counted"}
                 THEN Append(orders, NewOrder(r)) ELSE orders
    /\ UNCHANGED <<loyaltyPoints, usageCount>>

\* session.abortTransaction(): nothing written in the session is kept
AbortTransaction(r) == UNCHANGED ledger

CommitOrderOnly(r) ==
    /\ orders' = Append(orders, NewOrder(r))
    /\ UNCHANGED <<loyaltyPoints, usageCount>>

\* session.commitTransaction(): the order, the points and the usage
\* increment written in the session become visible together
CommitTransaction(r) ==
    /\ orders' = Append(orders, NewOrder(r))
    /\ loyaltyPoints' = [loyaltyPoints EXCEPT ![co[r].user] =
                            @ + Floor(co[r].finalTotal)]
    /\ usageCount' = IF co[r].validatedPromoCode # Null
                     THEN [usageCount EXCEPT ![co[r].validatedPromoCode] = @ + 1]
                     ELSE usageCount

CheckoutBegin(r, u, cart, addressComplete, appliedPromoCode) ==
    /\ generation = "mongo"
    /\ co[r].pc = "idle"
    /\ UNCHANGED <<static, ledger, sqlSide>>
    /\ IF cart = << >>
       THEN Respond(r, 400, "Shopping cart is empty or invalid.")
       ELSE IF ~addressComplete
       THEN Respond(r, 400, "Shipping address is missing required fields.")
       ELSE IF CartMissingFields(cart)
       THEN Respond(r, 400,
               "Cart item is missing required fields (id, name, price, quantity).")
       ELSE LET subTotal == SumItems(cart)
                code == IF appliedPromoCode = Null THEN Null
                        ELSE ToUpperTrim(appliedPromoCode)
                validationError == IF code = Null THEN "ok"
                                   ELSE CheckoutValidation(code, u)
                discountAmount == IF code = Null THEN 0
                                  ELSE ComputeDiscount(PromotionRows[code], subTotal)
            IN  IF validationError # "ok"
                THEN Respond(r, CheckoutErrorStatus(validationError),
                             IF CheckoutErrorStatus(validationError) = 400
                             THEN validationError
                             ELSE "Failed to process order.")
                ELSE /\ Len(orders) + Cardinality(InTx) < MaxOrders
                     /\ co' = [co EXCEPT ![r] =
                            [pc |-> "inTx", user |-> u,
                             items |-> OrderItems(cart), subTotal |-> subTotal,
                             validatedPromoCode |-> code,
                             discountAmount |-> discountAmount,
                             finalTotal |-> subTotal - discountAmount,
                             snapLen |-> IF code = Null THEN None
                                         ELSE Some(Len(orders)),
                             status |-> 0, message |-> "", failedAt |-> ""]]

QuantityNotValidated(items) == TRUE

\* OrderItemSchema: quantity has min: 1, checked when the order is saved
QuantityValid(items) ==
    \A i \in 1..Len(items) : items[i].quantity >= 1

\* await newOrder.save({ session })
CheckoutSave(r) ==
    /\ co[r].pc = "inTx"
    /\ UNCHANGED <<static, sqlSide>>
    /\ IF QuantityValid(co[r].items)
       THEN /\ co' = [co EXCEPT ![r].pc = "saved", ![r].snapLen = Snapshot(r)]
            /\ UNCHANGED ledger
       ELSE /\ AbortTransaction(r)
            /\ Respond(r, 500, "Failed to process order.")

\* await User.findByIdAndUpdate(userId, {$inc: {loyaltyPoints}}, {session})
CheckoutAwardPoints(r) ==
    /\ co[r].pc = "saved"
    /\ UNCHANGED <<static, sqlSide>>
    /\ IF UserWriteConflict(r)
       THEN /\ AbortTransaction(r)
            /\ Respond(r, 500, "Failed to process order.")
       ELSE /\ co' = [co EXCEPT ![r].pc = "awarded"]
            /\ UNCHANGED ledger

\* if (validatedPromoCode) await Promotion.updateOne({code}, {$inc}, {session})
CheckoutPromoUsage(r) ==
    /\ co[r].pc = "awarded"
    /\ UNCHANGED <<static, sqlSide>>
    /\ IF co[r].validatedPromoCode # Null /\ PromotionWriteConflict(r)
       THEN /\ AbortTransaction(r)
            /\ Respond(r, 500, "Failed to process order.")
       ELSE /\ co' = [co EXCEPT ![r].pc = "counted"]
            /\ UNCHANGED ledger

\* await session.commitTransaction(); res.status(201)
CheckoutCommit(r) ==
    /\ co[r].pc = "counted"
    /\ UNCHANGED <<static, sqlSide>>
    /\ CommitTransaction(r)
    /\ Respond(r, 201, "Order placed successfully!")

\* Any awaited operation of the transaction may reject: the catch block
\* aborts the transaction and answers 500.
CheckoutFail(r) ==
    /\ co[r].pc \in TxPcs
    /\ UNCHANGED <<static, sqlSide>>
    /\ AbortTransaction(r)
    /\ Respond(r, 500, "Failed to process order.")

\* The request slot takes the next request
CheckoutDone(r) ==
    /\ co[r].pc = "responded"
    /\ co' = [co EXCEPT ![r] = IdleReq]
    /\ UNCHANGED <<static, ledger, sqlSide>>

\* POST /api/checkout of the relational generation: the models Promotion
\* and Order it names are not defined there, so every request that gets
\* past the cart lines ends in the catch block.
CheckoutSqlEra(r, cart, appliedPromoCode) ==
    /\ generation = "sql"
    /\ co[r].pc = "idle"
    /\ UNCHANGED <<static, ledger, sqlSide>>
    /\ IF CartMissingFields(cart)
       THEN Respond(r, 400,
               "Cart item is missing required fields (id, name, price, quantity).")
       ELSE Respond(r, 500, "Failed to process order.")
----------------------------------------------------------------------------
(* POST /api/create-checkout-session *)

\* Promotion codes sent to session creation
SessionCodes == {"WELCOME10"}

\* Carts sent to session creation
SessionCarts == Carts \cup {CartStringId}

\* item.id.toString(), the product tag of a session line item
IdToString(id) ==
    CASE id = 1 -> "1" [] id = 2 -> "2" [] id = 3 -> "3" [] id = 4 -> "abc"
      [] id = 5 -> "2abc" [] OTHER -> "0"

\* parseInt(tag, 10): the number of the leading digits, NaN without any
ParseInt(tag) ==
    CASE tag = "1" -> Some(1) [] tag = "2" -> Some(2) [] tag = "3" -> Some(3)
      [] tag = "0" -> Some(0) [] tag = "2abc" -> Some(2) [] OTHER -> None

\* Math.round(parseFloat(item.price) * 100), for prices in whole cents
UnitAmount(price) == price \div 100

\* cart.map(item => ({price_data: {...}, quantity}))
LineItems(cart) ==
    [i \in 1..Len(cart) |->
        [sqlProductId |-> IdToString(cart[i].id), name |-> cart[i].name,
         unit_amount |-> UnitAmount(cart[i].price),
         quantity |-> cart[i].quantity]]

RECURSIVE AmountOf(_)
\* The provider's amount of a session: unit_amount * quantity over its lines
AmountOf(line_items) ==
    IF line_items = << >> THEN 0
    ELSE Head(line_items).unit_amount * Head(line_items).quantity
         + AmountOf(Tail(line_items))

\* The provider refuses a line item with a negative unit_amount or with a
\* quantity below 1
ProviderAccepts(line_items) ==
    \A i \in 1..Len(line_items) :
        line_items[i].unit_amount >= 0 /\ line_items[i].quantity >= 1

\* The session the provider creates: no discount, tax or shipping is passed
\* to it, so its total is its subtotal.
NewSession(u, cart, appliedPromoCode) ==
    [client_reference_id |-> u,
     line_items |-> LineItems(cart),
     promo_code |-> IF appliedPromoCode = Null THEN "" ELSE appliedPromoCode,
     amount_subtotal |-> AmountOf(LineItems(cart)),
     amount_total |-> AmountOf(LineItems(cart))]

mongoSide == <<co>>

SessionsCreatePlacesOrder(u, cart, appliedPromoCode) ==
    /\ sessions' = Append(sessions, NewSession(u, cart, appliedPromoCode))
    /\ orders' = Append(orders,
            [user |-> u, items |-> OrderItems(cart),
             subTotal |-> SumItems(cart), appliedPromoCode |-> appliedPromoCode,
             discountAmount |-> 0, totalAmount |-> SumItems(cart),
             stripeSessionId |-> Some(Len(sessions) + 1)])
    /\ UNCHANGED <<loyaltyPoints, usageCount>>

\* await stripe.checkout.sessions.create({...}): the one effect of the
\* handler, at the provider; the handler has no statement on the ledger
SessionsCreate(u, cart, appliedPromoCode) ==
    /\ sessions' = Append(sessions, NewSession(u, cart, appliedPromoCode))
    /\ UNCHANGED ledger

CreateCheckoutSession(u, cart, appliedPromoCode) ==
    /\ generation = "sql"
    /\ UNCHANGED <<static, mongoSide, ful, usageIncBy>>
    /\ IF cart = << >>
       THEN /\ httpResp' = 400
            /\ UNCHANGED <<sessions, ledger>>
       ELSE IF CartMissingFields(cart) \/ ~ProviderAccepts(LineItems(cart))
       THEN /\ httpResp' = 500
            /\ UNCHANGED <<sessions, ledger>>
       ELSE /\ Len(sessions) < MaxSessions
            /\ SessionsCreate(u, cart, appliedPromoCode)
            /\ httpResp' = 200

\* stripe.checkout.sessions.create rejects (network, provider error)
CreateCheckoutSessionFail ==
    /\ generation = "sql"
    /\ httpResp' = 500
    /\ UNCHANGED <<static, ledger, mongoSide, sessions, ful, usageIncBy>>

----------------------------------------------------------------------------
(* POST /api/stripe-webhook and fulfillOrderSql *)

\* status is the status of the webhook's response, 0 before it is sent
IdleRun ==
    [pc |-> "idle", sid |-> 0, usageInc |-> FALSE, result |-> "", error |-> "",
     status |-> 0]

FulTxPcs == {"created", "items", "awarded", "counted"}

FulInTx == {d \in Deliveries : ful[d].pc \in FulTxPcs}

OrdersOfSession(sid) ==
    {i \in 1..Len(orders) : orders[i].stripeSessionId = Some(sid)}

\* promoCode = session.metadata.promo_code || null
PromoCodeOf(sid) ==
    IF sessions[sid].promo_code = "" THEN Null ELSE sessions[sid].promo_code

\* The value a string is compared as by the store: no collation is
\* configured, and the default one of MySQL ignores letter case but not
\* leading whitespace
Collate(code) ==
    CASE code = "welcome10" -> "WELCOME10"
      [] code = " welcome10 " -> " WELCOME10 "
      [] OTHER -> code

PromotionWhereAnyCode(promoCode) ==
    IF promoCode = Null THEN {} ELSE PromoCodes

\* The rows of UPDATE promotions ... WHERE code = promoCode
PromotionWhereCode(promoCode) ==
    IF promoCode = Null THEN {}
    ELSE {c \in PromoCodes : c = Collate(promoCode)}

\* lineItems.data.map(...): productId, name, quantity, price of each line
MappedOrderItems(sid) ==
    [i \in 1..Len(sessions[sid].line_items) |->
        LET item == sessions[sid].line_items[i] IN
        [product |-> ParseInt(item.sqlProductId), name |-> item.name,
         price |-> item.unit_amount * 100, quantity |-> item.quantity]]

MappingNeverFails(sid) == FALSE

\* isNaN(sqlProductId) for some line item
MappingFails(sid) ==
    \E i \in 1..Len(sessions[sid].line_items) :
        ParseInt(sessions[sid].line_items[i].sqlProductId) = None

\* The SqlOrder row of a session, with its SqlOrderItem rows
NewSqlOrder(sid) ==
    LET subTotal == sessions[sid].amount_subtotal * 100
        totalAmount == sessions[sid].amount_total * 100
    IN  [user |-> sessions[sid].client_reference_id,
         items |-> MappedOrderItems(sid),
         subTotal |-> subTotal,
         appliedPromoCode |-> PromoCodeOf(sid),
         discountAmount |-> subTotal - totalAmount,
         totalAmount |-> totalAmount,
         stripeSessionId |-> Some(sid)]

\* fulfillOrderSql returns (result "skipped" or "fulfilled") or throws
Finish(d, result, error) ==
    ful' = [ful EXCEPT ![d] = [IdleRun EXCEPT !.pc = "done", !.sid = ful[d].sid,
                                              !.result = result,
                                              !.error = error,
                                              !.status = ful[d].status]]

\* The stripe-signature headers a callback arrives with
Signatures == {"valid", "invalid", "missing"}

SignatureNotChecked(signature, secretConfigured) == TRUE

\* STRIPE_WEBHOOK_SECRET is set, the header is there, and
\* stripe.webhooks.constructEvent accepts the body with it
SignatureVerified(signature, secretConfigured) ==
    secretConfigured /\ signature = "valid"

\* A checkout.session.completed event arrives.  One that is not verified is
\* answered 400 and its body is never read.  A verified one is answered 200
\* {received: true}; if it is paid, fulfillOrderSql(session) is started and
\* not awaited.
WebhookReceive(d, sid, payment_status, signature, secretConfigured) ==
    /\ generation = "sql"
    /\ ful[d].pc = "idle"
    /\ sid \in 1..Len(sessions)
    /\ ful' = [ful EXCEPT ![d] =
                 IF ~SignatureVerified(signature, secretConfigured)
                 THEN [IdleRun EXCEPT !.pc = "done", !.result = "rejected",
                                      !.status = 400]
                 ELSE IF payment_status = "paid"
                 THEN [IdleRun EXCEPT !.pc = "check", !.sid = sid,
                                      !.status = 200]
                 ELSE [IdleRun EXCEPT !.pc = "done", !.sid = sid,
                                      !.result = "notPaid", !.status = 200]]
    /\ UNCHANGED <<static, ledger, mongoSide, sessions, httpResp, usageIncBy>>

LookupFindsNothing(sid) == FALSE

\* const existingOrder = await SqlOrder.findOne({where: {stripeSessionId}})
ExistingOrder(sid) == OrdersOfSession(sid) # {}

\* The idempotency check, then the retrieval and mapping of the line items
FulfillCheck(d) ==
    /\ ful[d].pc = "check"
    /\ UNCHANGED <<static, ledger, mongoSide, sessions, httpResp, usageIncBy>>
    /\ IF ExistingOrder(ful[d].sid)
       THEN Finish(d, "skipped", "")
       ELSE IF MappingFails(ful[d].sid)
       THEN Finish(d, "error", "mapping")
       ELSE ful' = [ful EXCEPT ![d].pc = "tx"]

\* The lookup or the retrieval of the session rejects
FulfillCheckFail(d) ==
    /\ ful[d].pc = "check"
    /\ Finish(d, "error", "lookup")
    /\ UNCHANGED <<static, ledger, mongoSide, sessions, httpResp, usageIncBy>>

UniqueNotEnforced(sid) == FALSE

\* The unique index on orders.stripeSessionId refuses a second row
UniqueViolation(sid) == OrdersOfSession(sid) # {}

\* Another open transaction holds an uncommitted row with the same key:
\* the insert waits for it to end
InsertWaits(d) ==
    \E e \in FulInTx \ {d} : ful[e].sid = ful[d].sid

\* transaction = await sequelize.transaction(); await SqlOrder.create(...)
FulfillCreateOrder(d) ==
    /\ ful[d].pc = "tx"
    /\ ~InsertWaits(d)
    /\ UNCHANGED <<static, ledger, mongoSide, sessions, httpResp, usageIncBy>>
    /\ IF UniqueViolation(ful[d].sid)
       THEN Finish(d, "error", "unique")
       ELSE /\ Len(orders) + Cardinality(FulInTx) < MaxOrders
            /\ ful' = [ful EXCEPT ![d].pc = "created"]

\* await SqlOrderItem.bulkCreate(itemsToCreate, { transaction })
FulfillBulkCreate(d) ==
    /\ ful[d].pc = "created"
    /\ UNCHANGED <<static, ledger, mongoSide, sessions, httpResp, usageIncBy>>
    /\ IF \A i \in 1..Len(sessions[ful[d].sid].line_items) :
              sessions[ful[d].sid].line_items[i].quantity >= 1
       THEN ful' = [ful EXCEPT ![d].pc = "items"]
       ELSE Finish(d, "error", "db")

\* if (pointsEarned > 0) await SqlUser.increment('loyaltyPoints', ...)
FulfillAwardPoints(d) ==
    /\ ful[d].pc = "items"
    /\ ful' = [ful EXCEPT ![d].pc = "awarded"]
    /\ UNCHANGED <<static, ledger, mongoSide, sessions, httpResp, usageIncBy>>

\* if (promoCode) await SqlPromotion.increment('usageCount', ...)
FulfillPromoUsage(d) ==
    /\ ful[d].pc = "awarded"
    /\ ful' = [ful EXCEPT ![d].pc = "counted",
                          ![d].usageInc =
                              PromotionWhereCode(PromoCodeOf(ful[d].sid)) # {}]
    /\ UNCHANGED <<static, ledger, mongoSide, sessions, httpResp, usageIncBy>>

\* The increment rejects: the inner catch logs it and the transaction goes on
FulfillPromoUsageError(d) ==
    /\ ful[d].pc = "awarded"
    /\ PromoCodeOf(ful[d].sid) # Null
    /\ ful' = [ful EXCEPT ![d].pc = "counted", ![d].usageInc = FALSE]
    /\ UNCHANGED <<static, ledger, mongoSide, sessions, httpResp, usageIncBy>>

PointsEarned(sid) ==
    LET pointsEarned == Floor(NewSqlOrder(sid).totalAmount)
    IN  IF pointsEarned > 0 THEN pointsEarned ELSE 0

SqlCommitOrderOnly(d) ==
    /\ orders' = Append(orders, NewSqlOrder(ful[d].sid))
    /\ UNCHANGED <<loyaltyPoints, usageCount, usageIncBy>>

\* await transaction.commit(): the rows written in the transaction become
\* visible together
SqlCommit(d) ==
    LET sid == ful[d].sid IN
    /\ orders' = Append(orders, NewSqlOrder(sid))
    /\ loyaltyPoints' = [loyaltyPoints EXCEPT
            ![sessions[sid].client_reference_id] = @ + PointsEarned(sid)]
    /\ usageCount' = IF ful[d].usageInc
                     THEN [c \in PromoCodes |->
                             IF c \in PromotionWhereCode(PromoCodeOf(sid))
                             THEN usageCount[c] + 1 ELSE usageCount[c]]
                     ELSE usageCount
    /\ usageIncBy' = IF ful[d].usageInc THEN usageIncBy \cup {sid}
                     ELSE usageIncBy

FulfillCommit(d) ==
    /\ ful[d].pc = "counted"
    /\ SqlCommit(d)
    /\ Finish(d, "fulfilled", "")
    /\ UNCHANGED <<static, mongoSide, sessions, httpResp>>

\* What a statement of the transaction can reject with: a transient
\* conflict of the store (deadlock, lock wait timeout) or any other error
TxErrors == {"conflict", "db"}

SqlRollbackKeepsOrder(d) ==
    /\ orders' = Append(orders, NewSqlOrder(ful[d].sid))
    /\ UNCHANGED <<loyaltyPoints, usageCount, usageIncBy>>

\* await transaction.rollback(): no row written in the transaction is kept
SqlRollback(d) == UNCHANGED <<ledger, usageIncBy>>

\* The number of transactions the run has begun: sequelize.transaction() is
\* called once, in no loop
AttemptOf(d) ==
    IF ful[d].pc \in FulTxPcs \/ ful[d].error \in TxErrors \cup {"unique"}
    THEN 1 ELSE 0

\* A statement of the transaction, or the commit, rejects: the outer catch
\* rolls the transaction back and rethrows, whatever the error is
FulfillFail(d, error) ==
    /\ ful[d].pc \in FulTxPcs
    /\ SqlRollback(d)
    /\ Finish(d, "error", error)
    /\ UNCHANGED <<static, mongoSide, sessions, httpResp>>

\* The delivery slot takes the next event
FulfillDone(d) ==
    /\ ful[d].pc = "done"
    /\ ful' = [ful EXCEPT ![d] = IdleRun]
    /\ UNCHANGED <<static, ledger, mongoSide, sessions, httpResp, usageIncBy>>

----------------------------------------------------------------------------
(* Promotion evaluation of POST /api/apply-promotion and of the listing *)

\* const now = new Date(), on the scale of the start and end dates
Now == 5

\* apply-promotion: userTierMet of a promotion with applicableTier
ApplyTierMet(tier, points) ==
    \/ tier = "Silver" /\ points >= TierSilver
    \/ tier = "Gold" /\ points >= TierGold

\* apply-promotion: the tier check passes
ApplyTierDecision(tier, points) ==
    tier = Null \/ ApplyTierMet(tier, points)

\* checkout: the tier check passes
CheckoutTierDecision(tier, points) ==
    tier = Null \/ UserTierMet(tier, points)

\* GET /api/users/me/promotions: userEligible after "1. Check Loyalty Tier"
ListingTierDecision(tier, points) ==
    \/ tier = Null
    \/ /\ ~(tier = "Silver" /\ points < TierSilver)
       /\ ~(tier = "Gold" /\ points < TierGold)

\* The validation checks of apply-promotion for the row found (None: no
\* row), the user's points and the user's number of orders: "ok", or the
\* message of the response
ApplyEvaluate(found, points, orderCount) ==
    IF found = None THEN "Invalid promotion code."
    ELSE LET promotion == CHOOSE row \in found : TRUE IN
         IF ~promotion.isActive THEN "This promotion is no longer active."
         ELSE IF \E startDate \in promotion.startDate : startDate > Now
              THEN "This promotion has not started yet."
         ELSE IF \E endDate \in promotion.endDate : endDate < Now
              THEN "This promotion has expired."
         ELSE IF \E maxUses \in promotion.maxUses :
                    promotion.usageCount >= maxUses
              THEN "This promotion has reached its usage limit."
         ELSE IF ~ApplyTierDecision(promotion.applicableTier, points)
              THEN "You need the tier for this promotion."
         ELSE IF WelcomeAlreadyUsed(promotion, orderCount)
              THEN "Welcome offer is only for your first order."
         ELSE "ok"

\* The status of the response of apply-promotion for a message
ApplyStatus(message) ==
    CASE message = "ok" -> 200
      [] message = "Invalid promotion code." -> 404
      [] message \in {"You need the tier for this promotion.",
                      "Welcome offer is only for your first order."} -> 403
      [] OTHER -> 400

----------------------------------------------------------------------------
(* POST /api/apply-promotion of the relational generation *)

Applies == {"a1", "a2"}         \* concurrent apply-promotion requests

\* Codes sent to apply-promotion
ApplyCodes ==
    {"WISH-1-AAAA", "WISH-1-BBBB", "CAT-1-AAAA", "WISH-2-AAAA", "wish-1-aaaa",
     "WISH-12-AAAA", "WELCOME10", "FREESHIP100", "BOGUS"}

\* The family of a code that starts with WISH- or CAT-
CodeFamily(promoCode) ==
    CASE promoCode \in {"WISH-1-AAAA", "WISH-1-BBBB", "WISH-2-AAAA",
                        "WISH-12-AAAA"} -> "WISH"
      [] promoCode = "CAT-1-AAAA" -> "CAT"
      [] OTHER -> Null

\* The user id between the family and the suffix of such a code
CodeOwner(promoCode) ==
    CASE promoCode \in {"WISH-1-AAAA", "WISH-1-BBBB", "CAT-1-AAAA"} -> 1
      [] promoCode = "WISH-2-AAAA" -> 2
      [] promoCode = "WISH-12-AAAA" -> 12
      [] OTHER -> 0

IsPersonalizedAnyOwner(promoCode, u) == CodeFamily(promoCode) # Null

\* promoCode.startsWith(`WISH-${sqlUserId}-`) or (`CAT-${sqlUserId}-`)
IsPersonalized(promoCode, u) ==
    CodeFamily(promoCode) # Null /\ CodeOwner(promoCode) = u

\* The rows of personalized_code_usage with a user and a code.  The table
\* has no unique index on them; n numbers the rows of one user and code.
UsageRows(u, promoCode) ==
    {row \in codeUsage : row.userId = u /\ row.code = promoCode}

NeverUsed(u, promoCode) == FALSE

\* PersonalizedCodeUsage.findOne({ where: { code: promoCode, userId } })
AlreadyUsed(u, promoCode) == UsageRows(u, promoCode) # {}

\* The row PersonalizedCodeUsage.create({userId, code}) inserts
NewUsageRow(u, promoCode) ==
    [userId |-> u, code |-> promoCode,
     n |-> Cardinality(UsageRows(u, promoCode)) + 1]

IdleApply ==
    [pc |-> "idle", user |-> 0, code |-> "", status |-> 0, message |-> "",
     discountType |-> Null, discountValue |-> 0]

\* res.status(status).json({message}): no discount in the body
ApplyRespond(a, u, promoCode, status, message) ==
    ap' = [ap EXCEPT ![a] = [IdleApply EXCEPT !.pc = "responded", !.user = u,
                                              !.code = promoCode,
                                              !.status = status,
                                              !.message = message]]

\* res.json({message, code, description, discountType, discountValue})
ApplyGrant(a, u, promoCode, message, discountType, discountValue) ==
    ap' = [ap EXCEPT ![a] = [pc |-> "responded", user |-> u, code |-> promoCode,
                             status |-> 200, message |-> message,
                             discountType |-> discountType,
                             discountValue |-> discountValue]]

\* The handler up to the usage lookup of a personalized code, or to the
\* response for a code of the promotions table
ApplyPromotion(a, u, code) ==
    /\ generation = "sql"
    /\ ap[a].pc = "idle"
    /\ UNCHANGED <<generation, calc, codeUsage, ledger, mongoSide, sqlSide>>
    /\ IF code = Null
       THEN ApplyRespond(a, u, "", 400, "Promotion code is required.")
       ELSE LET promoCode == ToUpperTrim(code) IN
            IF IsPersonalized(promoCode, u)
            THEN IF AlreadyUsed(u, promoCode)
                 THEN ApplyRespond(a, u, promoCode, 400,
                        "This personalized offer code has already been used.")
                 ELSE ap' = [ap EXCEPT ![a] = [IdleApply EXCEPT !.pc = "record",
                                                                !.user = u,
                                                                !.code = promoCode]]
            ELSE LET message == ApplyEvaluate(FindPromotion(promoCode),
                                              loyaltyPoints[u],
                                              Cardinality(OrdersOf(u)))
                 IN  IF message = "ok"
                     THEN ApplyGrant(a, u, promoCode,
                                     "Promotion applied successfully!",
                                     PromotionRows[promoCode].discountType,
                                     PromotionRows[promoCode].discountValue)
                     ELSE ApplyRespond(a, u, promoCode, ApplyStatus(message),
                                       message)

\* A query of the handler rejects: the outer catch answers 500
ApplyPromotionFail(a, u, code) ==
    /\ generation = "sql"
    /\ ap[a].pc = "idle"
    /\ ApplyRespond(a, u, ToUpperTrim(code), 500,
                    "Failed to apply promotion code.")
    /\ UNCHANGED <<generation, calc, codeUsage, ledger, mongoSide, sqlSide>>

UsageWriteFailedOpen(a) ==
    ApplyGrant(a, ap[a].user, ap[a].code,
               "Personalized promotion applied successfully!", "PERCENTAGE", 10)

\* catch (usageError): res.status(500)
UsageWriteFailed(a) ==
    ApplyRespond(a, ap[a].user, ap[a].code, 500,
                 "Failed to record promotion usage. Please try again.")

\* await PersonalizedCodeUsage.create({userId, code}); res.json({...})
ApplyRecordUsage(a) ==
    /\ ap[a].pc = "record"
    /\ codeUsage' = codeUsage \cup {NewUsageRow(ap[a].user, ap[a].code)}
    /\ ApplyGrant(a, ap[a].user, ap[a].code,
                  "Personalized promotion applied successfully!", "PERCENTAGE", 10)
    /\ UNCHANGED <<generation, calc, ledger, mongoSide, sqlSide>>

\* PersonalizedCodeUsage.create rejects
ApplyRecordUsageFail(a) ==
    /\ ap[a].pc = "record"
    /\ UsageWriteFailed(a)
    /\ UNCHANGED <<generation, calc, codeUsage, ledger, mongoSide, sqlSide>>

\* The request slot takes the next request
ApplyDone(a) ==
    /\ ap[a].pc = "responded"
    /\ ap' = [ap EXCEPT ![a] = IdleApply]
    /\ UNCHANGED <<generation, calc, codeUsage, ledger, mongoSide, sqlSide>>

----------------------------------------------------------------------------
(* The specification *)

InitialPoints == [u \in Users |-> IF u = 1 THEN 0 ELSE TierSilver]

NoCalc == [phase |-> "none"]

\* The ledger and the handlers after start-up
InitState ==
    /\ generation \in {"mongo", "sql"}
    /\ orders = << >>
    /\ loyaltyPoints = InitialPoints
    /\ usageCount = [c \in PromoCodes |-> 0]
    /\ co = [r \in Reqs |-> IdleReq]
    /\ sessions = << >>
    /\ httpResp = 0
    /\ ful = [d \in Deliveries |-> IdleRun]
    /\ usageIncBy = {}
    /\ codeUsage = {}
    /\ ap = [a \in Applies |-> IdleApply]

Init ==
    /\ InitState
    /\ calc = NoCalc

NextMongo ==
    \/ \E r \in Reqs, u \in Users, cart \in Carts, addressComplete \in BOOLEAN,
          appliedPromoCode \in RawCodes \cup {Null} :
            CheckoutBegin(r, u, cart, addressComplete, appliedPromoCode)
    \/ \E r \in Reqs : CheckoutSave(r)
    \/ \E r \in Reqs : CheckoutAwardPoints(r)
    \/ \E r \in Reqs : CheckoutPromoUsage(r)
    \/ \E r \in Reqs : CheckoutCommit(r)
    \/ \E r \in Reqs : CheckoutFail(r)
    \/ \E r \in Reqs : CheckoutDone(r)

NextSqlEra ==
    \E r \in Reqs, cart \in Carts, appliedPromoCode \in RawCodes \cup {Null} :
        CheckoutSqlEra(r, cart, appliedPromoCode)

\* The webhook and the steps of fulfillOrderSql
NextFulfillment ==
    \/ \E d \in Deliveries, sid \in SessionIds,
          payment_status \in {"paid", "unpaid"}, signature \in Signatures,
          secretConfigured \in BOOLEAN :
            WebhookReceive(d, sid, payment_status, signature, secretConfigured)
    \/ \E d \in Deliveries : FulfillCheck(d)
    \/ \E d \in Deliveries : FulfillCheckFail(d)
    \/ \E d \in Deliveries : FulfillCreateOrder(d)
    \/ \E d \in Deliveries : FulfillBulkCreate(d)
    \/ \E d \in Deliveries : FulfillAwardPoints(d)
    \/ \E d \in Deliveries : FulfillPromoUsage(d)
    \/ \E d \in Deliveries : FulfillPromoUsageError(d)
    \/ \E d \in Deliveries : FulfillCommit(d)
    \/ \E d \in Deliveries, error \in TxErrors : FulfillFail(d, error)
    \/ \E d \in Deliveries : FulfillDone(d)

NextSql ==
    \/ \E u \in Users, cart \in SessionCarts,
          appliedPromoCode \in SessionCodes \cup {Null} :
            CreateCheckoutSession(u, cart, appliedPromoCode)
    \/ CreateCheckoutSessionFail
    \/ NextFulfillment

\* Order placement of both generations: the synchronous checkout of the
\* document-store generation, sessions and fulfillment of the relational one
Next == NextMongo \/ NextSql

Spec == Init /\ [][Next]_vars

\* The synchronous checkout of both generations
NextCheckout == NextMongo \/ NextSqlEra

SpecCheckout == Init /\ [][NextCheckout]_vars

\* The relational generation: sessions, webhook and fulfillment
InitSql == Init /\ generation = "sql"

SpecSql == InitSql /\ [][NextSql]_vars

\* Codes as clients send them to session creation: in another case, with
\* surrounding whitespace, and a personalized code, which has no row in
\* the promotions table
TypedSessionCodes == {"WELCOME10", "welcome10", " welcome10 ", "WISH-1-AAAA"}

\* Sessions of user 1 for one cart with the codes as typed, and their
\* fulfillment
NextTyped ==
    \/ \E appliedPromoCode \in TypedSessionCodes :
            CreateCheckoutSession(1, CartHundred, appliedPromoCode)
    \/ CreateCheckoutSessionFail
    \/ NextFulfillment

SpecTyped == InitSql /\ [][NextTyped]_vars

\* Carts whose ids are strings
TaggedCarts == {CartStringId, CartPrefixId}

\* Sessions of user 1 for the carts with string ids, and their fulfillment
NextTagged ==
    \/ \E cart \in TaggedCarts, appliedPromoCode \in SessionCodes \cup {Null} :
            CreateCheckoutSession(1, cart, appliedPromoCode)
    \/ CreateCheckoutSessionFail
    \/ NextFulfillment

SpecTagged == InitSql /\ [][NextTagged]_vars

----------------------------------------------------------------------------
(* The discount computation on its own, over a range of inputs *)

EvalValues == {0, 10, 50, 100, 150, 200}

EvalPromotions ==
    [discountType : {"PERCENTAGE", "FIXED_AMOUNT", "FREE_SHIPPING"},
     discountValue : EvalValues]

EvalSubTotals ==
    {0, Cents(1), Cents(3999), Dollars(40), Cents(7995), Dollars(100),
     Dollars(250), 0 - Dollars(5)}

InitEval ==
    /\ Init
    /\ generation = "mongo"

\* Lines "if (promoIsValid) {...}" of checkout for one promotion and subtotal
ApplyDiscount(promotion, subTotal) ==
    /\ calc.phase = "none"
    /\ calc' = [phase |-> "output", promotion |-> promotion,
                subTotal |-> subTotal,
                discountAmount |-> ComputeDiscount(promotion, subTotal),
                finalTotal |-> subTotal - ComputeDiscount(promotion, subTotal)]
    /\ UNCHANGED <<generation, promoSide, ledger, mongoSide, sqlSide>>

NextEval ==
    \E promotion \in EvalPromotions, subTotal \in EvalSubTotals :
        ApplyDiscount(promotion, subTotal)

SpecEval == InitEval /\ [][NextEval]_vars

----------------------------------------------------------------------------
(* apply-promotion with the personalized codes *)

InitApply == Init /\ generation = "sql"

NextApply ==
    \/ \E a \in Applies, u \in Users, code \in ApplyCodes \cup {Null} :
            ApplyPromotion(a, u, code)
    \/ \E a \in Applies, u \in Users, code \in ApplyCodes :
            ApplyPromotionFail(a, u, code)
    \/ \E a \in Applies : ApplyRecordUsage(a)
    \/ \E a \in Applies : ApplyRecordUsageFail(a)
    \/ \E a \in Applies : ApplyDone(a)

SpecApply == InitApply /\ [][NextApply]_vars

----------------------------------------------------------------------------
(* The evaluators on their own, over a range of promotion rows and users *)

EvalDates == {None, Some(3), Some(7)}

EvalRows ==
    [code : {"WELCOME10", "PROMO"}, isActive : BOOLEAN,
     startDate : EvalDates, endDate : EvalDates,
     maxUses : {None, Some(1)}, usageCount : {0, 1},
     applicableTier : {Null, "Bronze", "Silver", "Gold"},
     maxUsesPerUser : {None, Some(1)}]

EvalFound == {None} \cup {Some(row) : row \in EvalRows}

EvalPoints == {0, 99, 100, 499, 500}

EvalOrderCounts == {0, 1}

InitPromo ==
    /\ InitState
    /\ generation = "sql"
    /\ calc \in [phase : {"row"}, found : EvalFound, points : EvalPoints,
                 orderCount : EvalOrderCounts]

\* The applicableTier of the row found
TierOf(found) ==
    IF found = None THEN Null ELSE (CHOOSE row \in found : TRUE).applicableTier

\* One row, one user: the answers of the listing, of apply-promotion and of
\* the re-validation of checkout
EvaluatePromotion ==
    /\ calc.phase = "row"
    /\ calc' = [phase |-> "evaluated", found |-> calc.found,
                points |-> calc.points, orderCount |-> calc.orderCount,
                apply |-> ApplyEvaluate(calc.found, calc.points, calc.orderCount),
                checkout |-> CheckoutEvaluate(calc.found, calc.points,
                                              calc.orderCount),
                applyTier |-> ApplyTierDecision(TierOf(calc.found), calc.points),
                checkoutTier |-> CheckoutTierDecision(TierOf(calc.found),
                                                      calc.points),
                listingTier |-> ListingTierDecision(TierOf(calc.found),
                                                    calc.points)]
    /\ UNCHANGED <<generation, promoSide, ledger, mongoSide, sqlSide>>

NextPromo == EvaluatePromotion

SpecPromo == InitPromo /\ [][NextPromo]_vars

----------------------------------------------------------------------------
(* The wishlist: POST and DELETE /api/users/me/wishlist of the SQL era.    *)
(* The wishlist lives in the user document of the document store, the     *)
(* wishlistCount in the products table; each request holds one            *)
(* transaction per store and commits the table's first.                   *)

WlRequests == {"r1", "r2", "r3"}

WlOps == {"add", "remove"}

\* req.body.productId / req.params.productId
WlProductIds == {"1", "3", "abc"}

\* The rows of the products table
WlProducts == {1}

WlIdle == [pc |-> "idle", op |-> "", user |-> 0, product |-> 0,
           isWishlisted |-> FALSE, seen |-> 0, writes |-> FALSE, status |-> 0]

InitWishlist ==
    /\ InitState
    /\ generation = "sql"
    /\ calc = [phase |-> "wishlist",
               wishlist |-> [u \in Users |-> {}],
               wishlistCount |-> [p \in WlProducts |-> 0],
               version |-> [u \in Users |-> 0],
               writer |-> [u \in Users |-> "none"],
               req |-> [r \in WlRequests |-> WlIdle]]

WlFrame == UNCHANGED <<generation, promoSide, ledger, mongoSide, sqlSide>>

\* parseInt and its isNaN check, the two transactions' start, findById
\* under the document store's snapshot, and for an add findByPk
WishlistBegin(r, op, u, productId) ==
    /\ calc.phase = "wishlist"
    /\ calc.req[r].pc = "idle"
    /\ LET sqlProductId == ParseInt(productId) IN
       IF sqlProductId = None
       THEN calc' = [calc EXCEPT !.req[r] =
                [WlIdle EXCEPT !.pc = "done", !.op = op, !.user = u,
                               !.status = 400]]
       ELSE LET p == CHOOSE n \in sqlProductId : TRUE IN
            IF op = "add" /\ p \notin WlProducts
            THEN calc' = [calc EXCEPT !.req[r] =
                     [WlIdle EXCEPT !.pc = "done", !.op = op, !.user = u,
                                    !.product = p, !.status = 404]]
            ELSE calc' = [calc EXCEPT !.req[r] =
                     [WlIdle EXCEPT !.pc = "read", !.op = op, !.user = u,
                                    !.product = p,
                                    !.isWishlisted = (p \in calc.wishlist[u]),
                                    !.seen = calc.version[u]]]
    /\ WlFrame

\* Whether the request changes the wishlist and the counter
WlChanges(q) ==
    IF q.op = "add" THEN ~q.isWishlisted ELSE q.isWishlisted

\* The document store refuses a write to a document that another open
\* transaction has written or that changed after the snapshot
WlWriteConflict(q) ==
    \/ calc.writer[q.user] # "none"
    \/ calc.version[q.user] # q.seen

\* User.updateOne($addToSet / $pull) and SqlProduct.increment / decrement,
\* each inside its transaction; a write conflict goes to the catch block,
\* which rolls both transactions back
WishlistUpdate(r) ==
    /\ calc.phase = "wishlist"
    /\ calc.req[r].pc = "read"
    /\ LET q == calc.req[r] IN
       IF ~WlChanges(q)
       THEN calc' = [calc EXCEPT !.req[r].pc = "updated"]
       ELSE IF WlWriteConflict(q)
       THEN calc' = [calc EXCEPT !.req[r].pc = "done",
                                 !.req[r].status = 500]
       ELSE calc' = [calc EXCEPT !.req[r].pc = "updated",
                                 !.req[r].writes = TRUE,
                                 !.writer[q.user] = r]
    /\ WlFrame

\* The counter after the request's increment or decrement
WlCounted(q, wishlistCount) ==
    [p \in WlProducts |->
        IF q.writes /\ p = q.product
        THEN (IF q.op = "add" THEN wishlistCount[p] + 1
                              ELSE wishlistCount[p] - 1)
        ELSE wishlistCount[p]]

\* await sqlTransaction.commit()
WishlistCommitSql(r) ==
    /\ calc.phase = "wishlist"
    /\ calc.req[r].pc = "updated"
    /\ calc' = [calc EXCEPT
            !.req[r].pc = "sqlCommitted",
            !.wishlistCount = WlCounted(calc.req[r], calc.wishlistCount)]
    /\ WlFrame

\* The writer mark without the request's
WlReleased(r, writer) ==
    [u \in Users |-> IF writer[u] = r THEN "none" ELSE writer[u]]

\* sqlTransaction.commit() throws: the catch block aborts the document
\* store's transaction
WishlistCommitSqlFail(r) ==
    /\ calc.phase = "wishlist"
    /\ calc.req[r].pc = "updated"
    /\ calc' = [calc EXCEPT !.req[r].pc = "done",
                            !.req[r].status = 500,
                            !.writer = WlReleased(r, calc.writer)]
    /\ WlFrame

\* The wishlist after the request's $addToSet or $pull
WlListed(q, wishlist) ==
    IF ~q.writes THEN wishlist
    ELSE [wishlist EXCEPT ![q.user] =
            IF q.op = "add" THEN @ \cup {q.product} ELSE @ \ {q.product}]

\* await mongoSession.commitTransaction() and the 200 response
WishlistCommitMongo(r) ==
    /\ calc.phase = "wishlist"
    /\ calc.req[r].pc = "sqlCommitted"
    /\ LET q == calc.req[r] IN
       calc' = [calc EXCEPT
            !.req[r].pc = "done",
            !.req[r].status = 200,
            !.wishlist = WlListed(q, calc.wishlist),
            !.version[q.user] = IF q.writes THEN @ + 1 ELSE @,
            !.writer = WlReleased(r, calc.writer)]
    /\ WlFrame

\* mongoSession.commitTransaction() throws after the table's commit: the
\* catch block's rollback of the finished table transaction undoes
\* nothing, and either throws in turn (no response) or lets the 500 go out
WishlistCommitMongoFail(r) ==
    /\ calc.phase = "wishlist"
    /\ calc.req[r].pc = "sqlCommitted"
    /\ \E status \in {0, 500} :
        calc' = [calc EXCEPT !.req[r].pc = "done",
                             !.req[r].status = status,
                             !.writer = WlReleased(r, calc.writer)]
    /\ WlFrame

NextWishlist ==
    \/ \E r \in WlRequests, op \in WlOps, u \in Users,
          productId \in WlProductIds : WishlistBegin(r, op, u, productId)
    \/ \E r \in WlRequests : WishlistUpdate(r)
    \/ \E r \in WlRequests : WishlistCommitSql(r)
    \/ \E r \in WlRequests : WishlistCommitSqlFail(r)
    \/ \E r \in WlRequests : WishlistCommitMongo(r)
    \/ \E r \in WlRequests : WishlistCommitMongoFail(r)

SpecWishlist == InitWishlist /\ [][NextWishlist]_vars

----------------------------------------------------------------------------
(* Properties *)

RECURSIVE SumOver(_, _)
\* The sum of f[i] over the finite set S
SumOver(f, S) ==
    IF S = {} THEN 0
    ELSE LET i == CHOOSE j \in S : TRUE IN f[i] + SumOver(f, S \ {i})

\* floor(totalAmount) of each committed order
AwardOf == [i \in 1..Len(orders) |-> Floor(orders[i].totalAmount)]

\* floor(amount_total) of each payment session, in dollars
SessionAward == [sid \in 1..Len(sessions) |-> sessions[sid].amount_total \div 100]

SessionsOfUser(u) ==
    {sid \in 1..Len(sessions) : sessions[sid].client_reference_id = u}

SessionsWithCode(c) ==
    {sid \in 1..Len(sessions) : Collate(sessions[sid].promo_code) = c}

\* C1: a paid session delivered again after its order is committed leaves
\* exactly one order with that session identifier; the second run of
\* fulfillOrderSql, when its lookup is answered, returns without error (it
\* is skipped) and changes no order, no item, no loyalty balance and no
\* usage counter.
C1_RedeliveryIsNoOp ==
    /\ [](\A d \in Deliveries :
            ful[d].result = "skipped" =>
                Cardinality(OrdersOfSession(ful[d].sid)) = 1)
    /\ [][\A d \in Deliveries :
            (/\ ful[d].pc = "check"
             /\ OrdersOfSession(ful[d].sid) # {}
             /\ ful'[d] # ful[d]
             /\ ful'[d].error # "lookup")
            => /\ ful'[d].pc = "done"
               /\ ful'[d].result = "skipped"
               /\ ful'[d].error = ""
               /\ ledger' = ledger]_vars

\* C1 witness: a second delivery was skipped and its session has one order
C1_Witness ==
    \E d \in Deliveries :
        /\ ful[d].pc = "done"
        /\ ful[d].result = "skipped"
        /\ Cardinality(OrdersOfSession(ful[d].sid)) = 1

\* C2: for every session and every interleaving of concurrent runs of
\* fulfillOrderSql for it, at most one order with that session identifier
\* is committed, and the loyalty award and the usage increment of a session
\* are applied at most once.
C2_AtMostOneOrderPerSession ==
    /\ \A sid \in 1..Len(sessions) : Cardinality(OrdersOfSession(sid)) <= 1
    /\ \A u \in Users :
          loyaltyPoints[u] - InitialPoints[u]
              <= SumOver(SessionAward, SessionsOfUser(u))
    /\ \A c \in PromoCodes :
          usageCount[c] <= Cardinality(SessionsWithCode(c))

\* C2 witness: two runs for one session both passed the lookup; one
\* committed and the other was refused by the unique index
C2_Witness ==
    \E d, e \in Deliveries :
        /\ d # e
        /\ ful[d].sid = ful[e].sid
        /\ ful[d].pc = "done" /\ ful[d].result = "fulfilled"
        /\ ful[e].pc = "done" /\ ful[e].error = "unique"
        /\ loyaltyPoints[sessions[ful[d].sid].client_reference_id]
              > InitialPoints[sessions[ful[d].sid].client_reference_id]

\* C3: a run of fulfillOrderSql whose transaction fails with the unique
\* violation on stripeSessionId ends as a success: no error reaches the
\* caller.
C3_UniqueViolationIsSuccess ==
    \A d \in Deliveries :
        (ful[d].pc = "done" /\ ful[d].error = "unique")
            => ful[d].result # "error"

\* C4: in synchronous checkout the order with its items, the loyalty
\* increment of floor(finalTotal) and the usage increment of the applied
\* promotion become durable in one step at commit, or not at all: a request
\* that fails leaves orders, loyalty balances and usage counters as they
\* were.
C4_CheckoutAtomic ==
    [][/\ \/ ledger' = ledger
          \/ LET o == orders'[Len(orders')] IN
             /\ Len(orders') = Len(orders) + 1
             /\ SubSeq(orders', 1, Len(orders)) = orders
             /\ Len(o.items) >= 1
             /\ \A u \in Users :
                   loyaltyPoints'[u] = loyaltyPoints[u] +
                       (IF u = o.user THEN Floor(o.totalAmount) ELSE 0)
             /\ \A c \in PromoCodes :
                   usageCount'[c] = usageCount[c] +
                       (IF c = o.appliedPromoCode THEN 1 ELSE 0)
       /\ \A r \in Reqs :
             (co'[r] # co[r] /\ co'[r].pc = "responded" /\ co'[r].status # 201)
                 => ledger' = ledger]_vars

\* C4 witness: one request committed an order with a promotion, and another
\* failed after its usage increment was written in its transaction
C4_Witness ==
    \E r, q \in Reqs :
        /\ co[r].pc = "responded" /\ co[r].status = 201
        /\ co[q].pc = "responded" /\ co[q].status = 500
        /\ co[q].failedAt = "counted"
        /\ Len(orders) = 1
        /\ orders[1].appliedPromoCode \in PromoCodes
        /\ usageCount[orders[1].appliedPromoCode] = 1

\* C5: in fulfillOrderSql the order of a session that carries the code of
\* an existing promotion is committed if and only if the usage increment of
\* that promotion for the session is committed.
C5_OrderIffUsageIncrement ==
    \A sid \in 1..Len(sessions) :
        PromotionWhereCode(PromoCodeOf(sid)) # {} =>
            (OrdersOfSession(sid) # {} <=> sid \in usageIncBy)

\* C6: in every state of the ledger the loyalty balance of a user includes
\* floor(totalAmount) of every visible order of that user, for orders of
\* the synchronous checkout and of fulfillment alike.
C6_OrderVisibleWithAward ==
    \A u \in Users :
        loyaltyPoints[u] = InitialPoints[u] + SumOver(AwardOf, OrdersOf(u))

\* C6 witness: an order with a positive award is visible while another
\* transaction holds an order and an award that are not committed
C6_Witness ==
    /\ Len(orders) >= 1
    /\ Floor(orders[1].totalAmount) > 0
    /\ \/ \E r \in Reqs : co[r].pc = "awarded" /\ Floor(co[r].finalTotal) > 0
       \/ \E d \in Deliveries : ful[d].pc = "awarded"

\* C7: every promotion with maxUses set has usageCount <= maxUses
C7_UsageWithinMaxUses ==
    \A c \in PromoCodes :
        \A maxUses \in PromotionRows[c].maxUses : usageCount[c] <= maxUses

\* C8: usageCount of a promotion is its initial value, 0, plus the number
\* of committed orders whose appliedPromoCode is its code
C8_UsageEqualsOrders ==
    \A c \in PromoCodes :
        usageCount[c] =
            Cardinality({i \in 1..Len(orders) : orders[i].appliedPromoCode = c})

\* C9: every committed order has totalAmount = subTotal - discountAmount,
\* discountAmount <= subTotal and totalAmount >= 0
C9_OrderTotals ==
    \A i \in 1..Len(orders) :
        /\ orders[i].totalAmount = orders[i].subTotal - orders[i].discountAmount
        /\ orders[i].discountAmount <= orders[i].subTotal
        /\ orders[i].totalAmount >= 0

\* C10: for every subtotal and every PERCENTAGE promotion of value v the
\* discount is subtotal * v / 100 where that is at most the subtotal and
\* the subtotal otherwise, so the discount is at most the subtotal also
\* for v > 100
C10_PercentageClamped ==
    (calc.phase = "output" /\ calc.promotion.discountType = "PERCENTAGE") =>
        LET percent == (calc.subTotal * calc.promotion.discountValue) \div 100 IN
        /\ calc.discountAmount <= calc.subTotal
        /\ percent <= calc.subTotal => calc.discountAmount = percent
        /\ percent > calc.subTotal => calc.discountAmount = calc.subTotal

\* C10 witness: a percentage above 100 on a positive subtotal was clamped
C10_Witness ==
    /\ calc.phase = "output"
    /\ calc.promotion.discountType = "PERCENTAGE"
    /\ calc.promotion.discountValue > 100
    /\ calc.subTotal > 0
    /\ calc.discountAmount = calc.subTotal

\* C11: for a FIXED_AMOUNT promotion the discount is the smaller of
\* discountValue and the subtotal and the total is never negative; with
\* subtotal 40.00 and a fixed discount of 50.00 the discount is 40.00 and
\* the total 0.00
C11_FixedAmountClamped ==
    (calc.phase = "output" /\ calc.promotion.discountType = "FIXED_AMOUNT") =>
        LET fixed == Dollars(calc.promotion.discountValue) IN
        /\ calc.discountAmount = (IF fixed <= calc.subTotal THEN fixed
                                  ELSE calc.subTotal)
        /\ calc.finalTotal = calc.subTotal - calc.discountAmount
        /\ calc.finalTotal >= 0
        /\ (calc.subTotal = Dollars(40) /\ calc.promotion.discountValue = 50)
              => (calc.discountAmount = Dollars(40) /\ calc.finalTotal = 0)

\* C11 witness: the fixed discount of 50.00 on the subtotal 40.00
C11_Witness ==
    /\ calc.phase = "output"
    /\ calc.promotion.discountType = "FIXED_AMOUNT"
    /\ calc.promotion.discountValue = 50
    /\ calc.subTotal = Dollars(40)
    /\ calc.discountAmount = Dollars(40)
    /\ calc.finalTotal = 0

\* C12: a committed order of checkout or of fulfillment raises the balance
\* of its user by floor(totalAmount) and no other balance; the order of the
\* cart 2 x 50.00 with a 10% PERCENTAGE code records discountAmount 10.00
\* and totalAmount 90.00 and its user gains 90 points
C12_AwardIsFloorOfTotal ==
    [][Len(orders') = Len(orders) + 1 =>
        LET o == orders'[Len(orders')] IN
        /\ \A u \in Users :
              loyaltyPoints'[u] = loyaltyPoints[u] +
                  (IF u = o.user THEN Floor(o.totalAmount) ELSE 0)
        /\ (/\ o.subTotal = Dollars(100)
            /\ o.appliedPromoCode \in PromoCodes
            /\ PromotionRows[o.appliedPromoCode].discountType = "PERCENTAGE"
            /\ PromotionRows[o.appliedPromoCode].discountValue = 10)
           => /\ o.discountAmount = Dollars(10)
              /\ o.totalAmount = Dollars(90)
              /\ loyaltyPoints'[o.user] = loyaltyPoints[o.user] + 90]_vars

\* The row of an evaluation that found one
RowOf(found) == CHOOSE row \in found : TRUE

\* C13: for a promotion with applicableTier set, apply-promotion and the
\* re-validation of checkout accept the user if and only if the points
\* meet the threshold of the tier: Silver 100, Gold 500, Bronze 0
C13_TierGate ==
    (calc.phase = "evaluated" /\ TierOf(calc.found) # Null) =>
        LET threshold == CASE TierOf(calc.found) = "Silver" -> 100
                           [] TierOf(calc.found) = "Gold" -> 500
                           [] OTHER -> 0
        IN  /\ calc.applyTier <=> calc.points >= threshold
            /\ calc.checkoutTier <=> calc.points >= threshold

\* C14: for every applicable tier and every balance the tier decision of
\* the listing, of apply-promotion and of the re-validation of checkout is
\* the same
C14_TierDecisionsAgree ==
    calc.phase = "evaluated" =>
        /\ calc.listingTier = calc.applyTier
        /\ calc.applyTier = calc.checkoutTier

\* The checks that precede the welcome check pass for the row and the points
PassesUpToTier(row, points, withWindowAndLimit) ==
    /\ row.isActive
    /\ withWindowAndLimit =>
          /\ \A startDate \in row.startDate : startDate <= Now
          /\ \A endDate \in row.endDate : endDate >= Now
          /\ \A maxUses \in row.maxUses : row.usageCount < maxUses
    /\ \/ row.applicableTier = Null
       \/ row.applicableTier = "Silver" /\ points >= 100
       \/ row.applicableTier = "Gold" /\ points >= 500

\* C15: for WELCOME10 with maxUsesPerUser = 1 that passes the checks before
\* the welcome check, apply-promotion and the re-validation of checkout
\* reject a user with one or more orders as already used and accept a user
\* with none
C15_WelcomeSingleUse ==
    (/\ calc.phase = "evaluated"
     /\ calc.found # None
     /\ RowOf(calc.found).code = "WELCOME10"
     /\ RowOf(calc.found).maxUsesPerUser = Some(1)) =>
        /\ PassesUpToTier(RowOf(calc.found), calc.points, TRUE) =>
              calc.apply = (IF calc.orderCount >= 1
                            THEN "Welcome offer is only for your first order."
                            ELSE "ok")
        /\ PassesUpToTier(RowOf(calc.found), calc.points, FALSE) =>
              calc.checkout = (IF calc.orderCount >= 1
                               THEN "Welcome offer already used."
                               ELSE "ok")

\* C15 witness: the welcome code of a user with one order was rejected by
\* both evaluators as already used
C15_Witness ==
    /\ calc.phase = "evaluated"
    /\ calc.found # None
    /\ RowOf(calc.found).code = "WELCOME10"
    /\ RowOf(calc.found).maxUsesPerUser = Some(1)
    /\ calc.orderCount = 1
    /\ calc.apply = "Welcome offer is only for your first order."
    /\ calc.checkout = "Welcome offer already used."

\* The usage rows of the user and code of the request in slot a
UsageRowOf(a) == UsageRows(ap[a].user, ap[a].code)

\* C16: a personalized code WISH-{userId}-XXXX or CAT-{userId}-XXXX applied
\* by its user when no usage row of it exists goes on to record its usage
\* and is granted 10% PERCENTAGE with the row written; applied again when
\* the row exists it is answered as already used and nothing is written;
\* the code has no row in the promotions table and no usageCount changes
C16_PersonalizedSingleUse ==
    /\ [][\A a \in Applies :
            (ap'[a] # ap[a] /\ IsPersonalized(ap'[a].code, ap'[a].user)) =>
                LET row == NewUsageRow(ap'[a].user, ap'[a].code) IN
                /\ ap'[a].code \notin PromoCodes
                /\ ledger' = ledger
                /\ (ap[a].pc = "idle" /\ ap'[a].status # 500) =>
                      IF UsageRows(ap'[a].user, ap'[a].code) # {}
                      THEN /\ ap'[a].pc = "responded"
                           /\ ap'[a].status = 400
                           /\ ap'[a].message =
                                "This personalized offer code has already been used."
                           /\ ap'[a].discountType = Null
                           /\ codeUsage' = codeUsage
                      ELSE /\ ap'[a].pc = "record"
                           /\ codeUsage' = codeUsage
                /\ (ap[a].pc = "record" /\ ap'[a].status = 200) =>
                      /\ ap'[a].discountType = "PERCENTAGE"
                      /\ ap'[a].discountValue = 10
                      /\ codeUsage' = codeUsage \cup {row}]_vars

\* C16 witness: a personalized code applied again was answered as already
\* used, its usage row being there from the first application
C16_Witness ==
    \E a \in Applies :
        /\ ap[a].pc = "responded"
        /\ ap[a].status = 400
        /\ ap[a].message = "This personalized offer code has already been used."
        /\ IsPersonalized(ap[a].code, ap[a].user)
        /\ UsageRowOf(a) # {}

\* C17: when the usage row of a validated personalized code is not written,
\* apply-promotion answers with an error and returns no discount type or
\* value, and a request that does not succeed writes no usage row
C17_FailsClosed ==
    /\ [](\A a \in Applies :
            (ap[a].pc = "responded" /\ ap[a].status = 200
                /\ IsPersonalized(ap[a].code, ap[a].user))
            => UsageRowOf(a) # {})
    /\ [][\A a \in Applies :
            (ap[a].pc = "record" /\ ap'[a] # ap[a]) =>
                /\ codeUsage' = codeUsage =>
                      /\ ap'[a].pc = "responded"
                      /\ ap'[a].status = 500
                      /\ ap'[a].discountType = Null
                      /\ ap'[a].discountValue = 0
                /\ ap'[a].status # 200 => codeUsage' = codeUsage]_vars

\* C17 witness: the write of the usage row failed, the answer is the error
\* and no usage row of the code exists
C17_Witness ==
    \E a \in Applies :
        /\ ap[a].pc = "responded"
        /\ ap[a].status = 500
        /\ ap[a].message = "Failed to record promotion usage. Please try again."
        /\ ap[a].discountType = Null
        /\ UsageRowOf(a) = {}

\* C18: a user has at most one successful application per family of
\* personalized codes (prefix WISH-{userId}- or CAT-{userId}-)
C18_OneCodePerFamily ==
    \A u \in Users : \A family \in {"WISH", "CAT"} :
        Cardinality({row \in codeUsage :
                        row.userId = u /\ CodeFamily(row.code) = family}) <= 1

\* The reason of the first failing check of a row in the order unknown
\* code, not active, not started, expired, usage limit reached, tier not
\* met, welcome code already used
FirstFailingReason(found, points, orderCount) ==
    IF found = None THEN "unknown"
    ELSE LET row == RowOf(found) IN
         IF ~row.isActive THEN "inactive"
         ELSE IF \E startDate \in row.startDate : startDate > Now
              THEN "notStarted"
         ELSE IF \E endDate \in row.endDate : endDate < Now THEN "expired"
         ELSE IF \E maxUses \in row.maxUses : row.usageCount >= maxUses
              THEN "limit"
         ELSE IF \/ row.applicableTier = "Silver" /\ points < 100
                 \/ row.applicableTier = "Gold" /\ points < 500
              THEN "tier"
         ELSE IF row.code = "WELCOME10" /\ row.maxUsesPerUser = Some(1)
                 /\ orderCount >= 1
              THEN "welcome"
         ELSE "none"

\* The reason that a message of apply-promotion or of checkout names
ReasonNamed(message) ==
    CASE message = "ok" -> "none"
      [] message = "Invalid promotion code." -> "unknown"
      [] message \in {"This promotion is no longer active.",
                      "Promotion is not active."} -> "inactive"
      [] message = "This promotion has not started yet." -> "notStarted"
      [] message = "This promotion has expired." -> "expired"
      [] message = "This promotion has reached its usage limit." -> "limit"
      [] message \in {"You need the tier for this promotion.",
                      "User tier requirement not met."} -> "tier"
      [] message \in {"Welcome offer is only for your first order.",
                      "Welcome offer already used."} -> "welcome"
      [] OTHER -> "other"

\* C19: apply-promotion and the re-validation of checkout report the reason
\* of the first failing check in the order unknown code, not active, not
\* started, expired, usage limit reached, tier not met, welcome code
\* already used
C19_FirstFailingCheckReported ==
    calc.phase = "evaluated" =>
        /\ ReasonNamed(calc.apply) =
              FirstFailingReason(calc.found, calc.points, calc.orderCount)
        /\ ReasonNamed(calc.checkout) =
              FirstFailingReason(calc.found, calc.points, calc.orderCount)

\* C20: synchronous checkout commits an order with a promotion code only
\* if, in the ledger at that time, the promotion is active, inside its
\* start/end window and below maxUses
C20_CheckoutRevalidatesAtCommit ==
    [][(Len(orders') = Len(orders) + 1
          /\ orders'[Len(orders')].stripeSessionId = None
          /\ orders'[Len(orders')].appliedPromoCode \in PromoCodes) =>
        LET code == orders'[Len(orders')].appliedPromoCode IN
        /\ PromotionRows[code].isActive
        /\ \A startDate \in PromotionRows[code].startDate : startDate <= Now
        /\ \A endDate \in PromotionRows[code].endDate : endDate >= Now
        /\ \A maxUses \in PromotionRows[code].maxUses :
              usageCount[code] < maxUses]_vars

\* C21: every reason for which the promotion evaluation of checkout fails
\* (unknown code, promotion not active, tier not met, welcome code already
\* used) is answered with a 4xx status and a message that is that reason.
C21_EvaluationFailureNamed ==
    [][\A r \in Reqs, u \in Users, cart \in Carts, code \in RawCodes :
          (/\ CheckoutBegin(r, u, cart, TRUE, code)
           /\ cart # << >>
           /\ ~CartMissingFields(cart)
           /\ CheckoutValidation(ToUpperTrim(code), u) # "ok") =>
          /\ co'[r].status \in 400..499
          /\ co'[r].message = CheckoutValidation(ToUpperTrim(code), u)]_vars

\* C22: a checkout request with an empty cart or an incomplete shipping
\* address is answered with a 4xx status before the handler starts any
\* storage operation, and the ledger is left as it was.
C22_InvalidRequestRejected ==
    [][\A r \in Reqs, u \in Users, cart \in Carts, addressComplete \in BOOLEAN,
          code \in RawCodes \cup {Null} :
          (/\ \/ CheckoutBegin(r, u, cart, addressComplete, code)
              \/ CheckoutSqlEra(r, cart, code)
           /\ cart = << >> \/ ~addressComplete) =>
          /\ co'[r].status \in 400..499
          /\ co'[r].failedAt = "idle"
          /\ UNCHANGED ledger]_vars

\* C23: a request to POST /api/create-checkout-session, answered 200 or with
\* an error, leaves the orders with their items, every loyalty balance,
\* every usage counter and the personalized-code usage rows as they were.
\* The handler is the only writer of sessions and httpResp, so its steps are
\* the steps that change one of them.
C23_SessionCreationFrame ==
    [][(sessions' # sessions \/ httpResp' # httpResp) =>
       /\ orders' = orders
       /\ loyaltyPoints' = loyaltyPoints
       /\ usageCount' = usageCount
       /\ codeUsage' = codeUsage]_vars

\* A session was created after an order was fulfilled with its points, and a
\* later request to create a session was refused
C23_Witness ==
    /\ Len(sessions) = 2
    /\ httpResp = 500
    /\ Len(orders) = 1
    /\ \E u \in Users : loyaltyPoints[u] > InitialPoints[u]

\* The session has a line item whose product tag is not a decimal number
NonNumericTag(sid) ==
    \E i \in 1..Len(sessions[sid].line_items) :
        sessions[sid].line_items[i].sqlProductId \notin {"0", "1", "2", "3"}

C25_UnverifiedCallbackRejected ==
    /\ [](\A d \in Deliveries : ful[d].result = "rejected" =>
            ful[d].pc = "done" /\ ful[d].status = 400)
    /\ [][\A d \in Deliveries :
            (ful[d].pc = "idle" /\ ful'[d].pc # "idle") =>
            \A sid \in SessionIds, payment_status \in {"paid", "unpaid"},
               signature \in Signatures, secretConfigured \in BOOLEAN :
               (/\ signature # "valid" \/ ~secretConfigured
                /\ WebhookReceive(d, sid, payment_status, signature,
                                  secretConfigured)) =>
               /\ ful'[d].status = 400
               /\ ful'[d].pc = "done"
               /\ ful'[d].result = "rejected"
               /\ UNCHANGED <<ledger, usageIncBy>>]_vars

\* A callback for a paid session that has no order was rejected
C25_Witness ==
    \E d \in Deliveries :
        /\ ful[d].result = "rejected"
        /\ ful[d].status = 400
        /\ \E sid \in 1..Len(sessions) : OrdersOfSession(sid) = {}

\* C26: each user's loyalty balance is never negative and no step lowers it.
C26_LoyaltyNeverDecreases ==
    /\ [](\A u \in Users : loyaltyPoints[u] >= 0)
    /\ [][\A u \in Users : loyaltyPoints'[u] >= loyaltyPoints[u]]_vars

\* maxRetries of fulfillOrder
MaxRetries == 3

\* C27: a transient conflict at the first or the second attempt of the
\* fulfillment transaction does not end the run, so that the third attempt
\* can commit; a session never has more than one order, and the step at
\* which an attempt fails leaves no order, points or usage increment of it.
C27_ConflictsThenSuccess ==
    /\ [](\A sid \in 1..Len(sessions) : Cardinality(OrdersOfSession(sid)) <= 1)
    /\ [][\A d \in Deliveries :
            (/\ ful[d].pc \in FulTxPcs
             /\ AttemptOf(d) < MaxRetries
             /\ ful'[d].error = "conflict") =>
            /\ ful'[d].pc # "done"
            /\ UNCHANGED <<ledger, usageIncBy>>]_vars

\* C28: an attempt that fails with a transient conflict before the third is
\* followed by a new attempt of the same run; an attempt that fails with
\* another error, or the third attempt, ends the run with the error thrown.
C28_RetryPolicy ==
    [][\A d \in Deliveries :
          (ful[d].pc \in FulTxPcs /\ ful'[d].pc \notin FulTxPcs
             /\ ful'[d].result # "fulfilled") =>
          IF ful'[d].error = "conflict" /\ AttemptOf(d) < MaxRetries
          THEN ful'[d].pc = "tx" /\ ful'[d].sid = ful[d].sid
          ELSE ful'[d].pc = "done" /\ ful'[d].result = "error"]_vars

\* C29: when every attempt of a run has failed with a transient conflict,
\* the run ends with the error thrown to the webhook handler, it is neither
\* fulfilled nor skipped, nothing of it is in the ledger and the session
\* has no order.
C29_ExhaustedIsHardFailure ==
    /\ [](\A d \in Deliveries : ful[d].error = "conflict" =>
            /\ ful[d].pc = "done"
            /\ ful[d].result = "error")
    /\ [][\A d \in Deliveries :
            (ful[d].pc \in FulTxPcs /\ ful'[d].error = "conflict") =>
            /\ ful'[d].result = "error"
            /\ UNCHANGED <<ledger, usageIncBy>>
            /\ \A i \in 1..Len(orders') :
                  orders'[i].stripeSessionId # Some(ful[d].sid)]_vars

\* The one attempt of a run failed with a transient conflict after its
\* points and its usage increment were written in the transaction
C29_Witness ==
    \E d \in Deliveries :
        /\ ful[d].pc = "done"
        /\ ful[d].error = "conflict"
        /\ PromoCodeOf(ful[d].sid) # Null
        /\ OrdersOfSession(ful[d].sid) = {}
        /\ loyaltyPoints = InitialPoints

\* C30: of the apply-promotion requests of one user for one personalized
\* code, however they interleave, at most one is granted the discount, and
\* the user and code have at most one row in personalized_code_usage.
C30_ConcurrentApplySingleUse ==
    /\ \A u \in Users, code \in ApplyCodes :
          Cardinality(UsageRows(u, code)) <= 1
    /\ \A a, b \in Applies :
          (/\ a # b
           /\ ap[a].status = 200 /\ ap[b].status = 200
           /\ IsPersonalized(ap[a].code, ap[a].user)
           /\ ap[a].user = ap[b].user) =>
          ap[a].code # ap[b].code

\* C31: no user ever has more than one committed order whose
\* appliedPromoCode is the welcome code WELCOME10.
C31_WelcomeOrderOncePerUser ==
    \A u \in Users :
        Cardinality({i \in 1..Len(orders) :
                        /\ orders[i].user = u
                        /\ orders[i].appliedPromoCode = "WELCOME10"}) <= 1

\* C32: the order that fulfillment commits for a session with a promotion
\* code of the table records the subTotal, discountAmount and totalAmount
\* that the synchronous checkout computes for the same lines and code, and
\* its user is awarded the same points.
C32_SessionPathMatchesCheckout ==
    [][(/\ Len(orders') = Len(orders) + 1
        /\ orders'[Len(orders')].stripeSessionId # None
        /\ orders'[Len(orders')].appliedPromoCode \in PromoCodes) =>
        LET o == orders'[Len(orders')]
            subTotal == SumItems(o.items)
            discountAmount ==
                ComputeDiscount(PromotionRows[o.appliedPromoCode], subTotal)
        IN  /\ o.subTotal = subTotal
            /\ o.discountAmount = discountAmount
            /\ o.totalAmount = subTotal - discountAmount
            /\ loyaltyPoints'[o.user] =
                  loyaltyPoints[o.user] + Floor(subTotal - discountAmount)]_vars

\* C33: the promotion code an order is stored with is the trimmed
\* upper-case form of the code the client sent, and the usage counter
\* incremented with the order is the counter of that form.
C33_CodesNormalized ==
    /\ [](\A i \in 1..Len(orders) :
            orders[i].appliedPromoCode # Null =>
                orders[i].appliedPromoCode =
                    ToUpperTrim(orders[i].appliedPromoCode))
    /\ [][\A c \in PromoCodes :
            usageCount'[c] # usageCount[c] =>
                /\ Len(orders') = Len(orders) + 1
                /\ orders'[Len(orders')].appliedPromoCode = c]_vars

C35_ProductTagRoundTrip ==
    [][sessions' # sessions =>
        \A cart \in TaggedCarts, appliedPromoCode \in SessionCodes \cup {Null} :
            CreateCheckoutSession(1, cart, appliedPromoCode) =>
            LET line_items == sessions'[Len(sessions')].line_items IN
            /\ Len(line_items) = Len(cart)
            /\ \A i \in 1..Len(cart) :
                  /\ ParseInt(line_items[i].sqlProductId) = Some(cart[i].id)
                  /\ line_items[i].quantity = cart[i].quantity]_vars

\* C36: a code WISH-{v}-suffix or CAT-{v}-suffix whose v is not the id of
\* the caller, a v that merely starts with the caller's id included, is not
\* a personalized code of the caller: the request is answered at once as an
\* invalid code (no row of the promotions table has such a code), it is
\* granted no discount and no usage row is written for it.
C36_ForeignCodeNotPersonalized ==
    /\ [](\A row \in codeUsage : CodeOwner(row.code) = row.userId)
    /\ [][\A a \in Applies :
            (/\ ap[a].pc = "idle"
             /\ ap'[a].pc # "idle"
             /\ CodeFamily(ap'[a].code) # Null
             /\ CodeOwner(ap'[a].code) # ap'[a].user) =>
            /\ ap'[a].pc = "responded"
            /\ ap'[a].discountType = Null
            /\ codeUsage' = codeUsage
            /\ \/ ap'[a].status = 404 /\ ap'[a].message = "Invalid promotion code."
               \/ ap'[a].status = 500]_vars

\* User 1 applied WISH-12-AAAA and was answered that the code is invalid,
\* while holding a usage row of a code of their own
C36_Witness ==
    \E a \in Applies :
        /\ ap[a].pc = "responded"
        /\ ap[a].user = 1
        /\ ap[a].code = "WISH-12-AAAA"
        /\ ap[a].status = 404
        /\ UsageRows(1, "WISH-1-AAAA") # {}
        /\ UsageRows(1, "WISH-12-AAAA") = {}

\* C37: the order that fulfillment commits for a paid session whose code
\* is the code of no row of the promotions table is stored with that code,
\* its user is awarded the points of its total, and no usageCount changes.
C37_UnknownCodeOrderCommitted ==
    [][(/\ Len(orders') = Len(orders) + 1
        /\ orders'[Len(orders')].stripeSessionId # None) =>
        \A sid \in orders'[Len(orders')].stripeSessionId :
            (/\ sessions[sid].promo_code # ""
             /\ Collate(sessions[sid].promo_code) \notin PromoCodes) =>
            LET o == orders'[Len(orders')] IN
            /\ o.appliedPromoCode = sessions[sid].promo_code
            /\ o.user = sessions[sid].client_reference_id
            /\ loyaltyPoints' = [loyaltyPoints EXCEPT
                    ![o.user] = @ + Floor(o.totalAmount)]
            /\ usageCount' = usageCount]_vars

\* The session with the personalized code WISH-1-AAAA has its order, its
\* run ended fulfilled, and every usageCount is 0
C37_Witness ==
    \E d \in Deliveries :
        /\ ful[d].pc = "done"
        /\ ful[d].result = "fulfilled"
        /\ sessions[ful[d].sid].promo_code = "WISH-1-AAAA"
        /\ \E i \in OrdersOfSession(ful[d].sid) :
              orders[i].appliedPromoCode = "WISH-1-AAAA"
        /\ loyaltyPoints[1] = InitialPoints[1] + 100
        /\ \A c \in PromoCodes : usageCount[c] = 0

\* The users whose wishlist contains the product
WishlistedBy(p) == {u \in Users : p \in calc.wishlist[u]}

\* C38: whenever no wishlist request stands between its two commits, each
\* product's wishlistCount is the number of users whose wishlist contains
\* the product, and so is not negative, whatever the interleaving of adds
\* and removes and also after a failure of the second commit.
C38_WishlistCountMatches ==
    (/\ calc.phase = "wishlist"
     /\ \A r \in WlRequests : calc.req[r].pc # "sqlCommitted") =>
        \A p \in WlProducts :
            /\ calc.wishlistCount[p] = Cardinality(WishlistedBy(p))
            /\ calc.wishlistCount[p] >= 0

====
